---- MODULE Spec2Model ----
(***************************************************************************)
(* A model of src/main.js, the mini 3D collection game.                    *)
(*                                                                         *)
(* Numbers.  JavaScript numbers are modelled in fixed point:               *)
(*   lengths and positions   in 1/100 of a world unit   (0.8  -> 80)       *)
(*   velocities              in 1/100 of a unit per second                 *)
(*   times                   in milliseconds                               *)
(*   angles                  in 1/1000 of a radian                         *)
(*   unit vectors, factors   in 1/1000                                     *)
(* NaN and undefined are two reserved values; every arithmetic operator    *)
(* and comparison treats them as JavaScript does.                          *)
(*                                                                         *)
(* Handlers.  The browser runs one callback at a time.  pc = "idle" is the *)
(* event loop between callbacks.  A browser frame runs the callbacks that  *)
(* requestAnimationFrame had queued when it began, oldest first, all with  *)
(* the same time (pc = "raf" between them); a callback cancelled before    *)
(* its turn is skipped, one requested meanwhile waits for the next frame.  *)
(* animate is split into its consecutive steps, and while pc # "idle" only *)
(* the next step of the running callback is enabled.                       *)
(***************************************************************************)
EXTENDS Integers, Sequences, FiniteSets, TLC

\* ------------------------------------------------------------ JS numbers

\* The JavaScript value NaN (main.js:134 yields it when now is undefined).
NaN == -1000000
\* The JavaScript value undefined (animate() is called with no argument).
Undefined == -1000001

IsNum(a) == a # NaN /\ a # Undefined

Add(a, b) == IF IsNum(a) /\ IsNum(b) THEN a + b ELSE NaN
Sub(a, b) == IF IsNum(a) /\ IsNum(b) THEN a - b ELSE NaN
Mul(a, b) == IF IsNum(a) /\ IsNum(b) THEN a * b ELSE NaN

\* Integer quotient rounded toward zero (the fixed-point image of a / c).
TDiv(a, c) == IF a >= 0 THEN a \div c ELSE -((-a) \div c)

\* a * b / c in fixed point; NaN if any operand is not a number.
MulDiv(a, b, c) == IF IsNum(a) /\ IsNum(b) /\ IsNum(c) THEN TDiv(a * b, c) ELSE NaN

\* JavaScript <, >: false when either side is NaN.
Lt(a, b) == IsNum(a) /\ IsNum(b) /\ a < b
Gt(a, b) == IsNum(a) /\ IsNum(b) /\ a > b

\* Math.min / Math.max: NaN when either argument is NaN.
MathMin(a, b) == IF IsNum(a) /\ IsNum(b) THEN (IF a < b THEN a ELSE b) ELSE NaN
MathMax(a, b) == IF IsNum(a) /\ IsNum(b) THEN (IF a > b THEN a ELSE b) ELSE NaN

\* Math.sqrt on non-negative integers (floor), by bisection between lo and hi.
SqrtStep[n \in Nat, lo \in Nat, hi \in Nat] ==
  IF lo >= hi THEN lo
  ELSE IF ((lo + hi + 1) \div 2) * ((lo + hi + 1) \div 2) <= n
       THEN SqrtStep[n, (lo + hi + 1) \div 2, hi]
       ELSE SqrtStep[n, lo, ((lo + hi + 1) \div 2) - 1]

MathSqrt(n) == IF ~IsNum(n) THEN NaN ELSE SqrtStep[n, 0, 46340]

\* Math.cos / Math.sin of an angle in milliradians, result in 1/1000,
\* quantised to sixteenths of a turn.
TwoPi == 6283
CosTable == << 1000, 924, 707, 383, 0, -383, -707, -924,
               -1000, -924, -707, -383, 0, 383, 707, 924 >>
MathCos(a) == IF ~IsNum(a) THEN NaN
              ELSE CosTable[(((a % TwoPi) * 16) \div TwoPi) + 1]
MathSin(a) == IF ~IsNum(a) THEN NaN
              ELSE CosTable[((((a + 3 * TwoPi - 1571) % TwoPi) * 16) \div TwoPi) + 1]

\* Math.pow(0.8, dt*10) for dt in milliseconds, result in 1/1000
\* (1 at dt = 0, 0.894 at dt = 50 ms, linear in between).
Pow08(dt) == IF ~IsNum(dt) THEN NaN ELSE 1000 - TDiv(106 * dt, 50)

\* ------------------------------------------------------------ THREE.Vector3

Vec(a, b, c) == [x |-> a, y |-> b, z |-> c]
ZeroVec == Vec(0, 0, 0)

VecIsNum(v) == IsNum(v.x) /\ IsNum(v.y) /\ IsNum(v.z)

\* Vector3.addScaledVector(v, s) with s = num/den.
addScaledVector(a, v, num, den) ==
  Vec(Add(a.x, MulDiv(v.x, num, den)),
      Add(a.y, MulDiv(v.y, num, den)),
      Add(a.z, MulDiv(v.z, num, den)))

\* Vector3.multiplyScalar(s) with s = num/den.
multiplyScalar(v, num, den) ==
  Vec(MulDiv(v.x, num, den), MulDiv(v.y, num, den), MulDiv(v.z, num, den))

\* Vector3.length().
length(v) == MathSqrt(Add(Add(Mul(v.x, v.x), Mul(v.y, v.y)), Mul(v.z, v.z)))

\* Vector3.setLength(l) = normalize().multiplyScalar(l); normalize divides by
\* (length || 1), so the zero vector and a NaN length divide by one.
setLength(v, l) ==
  CHOOSE r \in {multiplyScalar(v, l, d) :
                 d \in {IF ~IsNum(len) \/ len = 0 THEN 1 ELSE len :
                         len \in {length(v)}}} : TRUE

\* Vector3.distanceToSquared(v).
distanceToSquared(a, b) ==
  LET dx == Sub(a.x, b.x)
      dy == Sub(a.y, b.y)
      dz == Sub(a.z, b.z)
  IN Add(Add(Mul(dx, dx), Mul(dy, dy)), Mul(dz, dz))

\* Vector3.lerp(v, alpha) with alpha = num/den.
lerp(a, v, num, den) ==
  Vec(Add(a.x, MulDiv(Sub(v.x, a.x), num, den)),
      Add(a.y, MulDiv(Sub(v.y, a.y), num, den)),
      Add(a.z, MulDiv(Sub(v.z, a.z), num, den)))

\* ------------------------------------------------------------ constants

playerRadius == 80          \* 0.8
ITEM_COUNT == 8
OBSTACLE_COUNT == 4         \* spawnObstacles(4)
WORLD_RADIUS == 4000        \* 40
ITEM_HEIGHT == 60           \* pickups sit at y = 0.6
ITEM_PAD == 90              \* r = playerRadius + 0.9
OBSTACLE_PAD == 120         \* r = playerRadius + 1.2
ITEM_REWARD == 10
HAZARD_PENALTY == 20
RESPAWN_DELAY == 800        \* setTimeout(() => spawnItems(1), 800)
ITEM_FLASH_MS == 700        \* flashMessage('+10!', 700)
HAZARD_FLASH_MS == 900      \* flashMessage('Ouch! -20', 900)
SHAKE_AMOUNT == 35          \* shakeCamera(0.35, 350)
SHAKE_MS == 350
MAX_DT == 50                \* Math.min(0.05, ...)
accel == 1800               \* 18
maxSpeed == 1000            \* 10
CAM_UP == 650               \* desired camera: player + (0, 6.5, 11)
CAM_BACK == 1100
LOOK_UP == 120              \* lookAt target: player + (0, 1.2, 0)

KeyCodes == {"KeyW", "ArrowUp", "KeyS", "ArrowDown",
             "KeyA", "ArrowLeft", "KeyD", "ArrowRight"}

\* ------------------------------------------------------------ bounds

\* Frames run per behaviour.
MaxFrames == 2
\* Keys held at the same time.
MaxHeld == 2
\* Clicks on the start button per behaviour.
MaxClicks == 2

\* Time that passes before a scheduled callback runs (ms).
Delays == {40, 400}

\* Values of Math.random(), in 1/1000: the two draws of one randomPoint,
\* the three draws of one shake tick.
RandPairs == {<<0, 0>>, <<999, 250>>}
RandTriples == {<<0, 0, 0>>, <<999, 0, 999>>}

\* ------------------------------------------------------------ state

VARIABLES
  started,      \* let started
  score,        \* let score
  player,       \* player.position
  velocity,     \* let velocity
  camera,       \* camera.position
  camDir,       \* the camera's viewing direction (set by lookAt), not normalised
  items,        \* let items: the positions of the active pickups, in order
  obstacles,    \* let obstacles: [position, phase, radius, speed] each
  keys,         \* the key codes k with keys[k] = true
  lastTime,     \* let lastTime
  messageEl,    \* messageEl.textContent
  shakeTimeout, \* let shakeTimeout
  clock,        \* performance.now()
  rafQueue,     \* callbacks given to requestAnimationFrame, oldest first
  batch,        \* ids of the callbacks the running browser frame has yet to run
  rafSeq,       \* the last id requestAnimationFrame returned
  timers,       \* callbacks given to setTimeout, oldest first
  pc,           \* "idle", or the step of animate that runs next
  now,          \* animate's parameter now
  dt,           \* animate's const dt
  idx,          \* the loop index of the collision pass that is running
  frames,       \* browser frames run so far
  clicks,       \* clicks on the start button so far
  hazardPass,   \* history of the running hazard pass: the hazards in reach and
                \* the score when it began, the hits it has made
  baseline,     \* history: camera.position when the shake in progress began
  itemPass,     \* history of the running pickup pass: the pickups, the score
                \* and the respawn timers set when it began
  shakeStart,   \* history: performance.now() at the latest shakeCamera call
  log           \* the steps the running frame has completed, in order

vars == << started, score, player, velocity, camera, camDir, items, obstacles,
           keys, lastTime, messageEl, shakeTimeout, clock, rafQueue, batch,
           rafSeq, timers, pc, now, dt, idx, frames, clicks, hazardPass, baseline,
           itemPass, shakeStart, log >>

\* ------------------------------------------------------------ helpers

\* A removal that always takes the first element.
spliceFirst(s, k) == Tail(s)
\* Array.prototype.splice(i, 1) on a 1-based sequence.
splice(s, k) == [n \in 1..(Len(s) - 1) |-> IF n < k THEN s[n] ELSE s[n + 1]]

\* randomPoint(radius): r = sqrt(random) * radius, t = random * 2 pi.
randomPoint(radius, u1, u2) ==
  LET r == TDiv(MathSqrt(u1 * 1000) * radius, 1000)
      t == TDiv(u2 * TwoPi, 1000)
  IN Vec(TDiv(MathCos(t) * r, 1000), 0, TDiv(MathSin(t) * r, 1000))

\* One pickup made by spawnItems: m.position.set(pos.x, 0.6, pos.z).
newItem(u1, u2) ==
  LET pos == randomPoint(TDiv(WORLD_RADIUS * 6, 10), u1, u2)
  IN Vec(pos.x, ITEM_HEIGHT, pos.z)

\* An orbit around the hazard's previous position.
orbitAroundSelf(ob, t) ==
  LET a == TDiv(t * ob.speed, 1000)
      x == Add(ob.position.x, MulDiv(MathCos(a + ob.phase), ob.radius, 1000))
      z == Add(ob.position.z, MulDiv(MathSin(a + ob.phase), ob.radius, 1000))
      y == 100 + MulDiv(MathSin(a + TDiv(ob.phase * 3, 10)), 50, 1000)
  IN Vec(x, y, z)
\* The orbit position updateObstacles writes for time t (ms).
orbitPosition(ob, t) ==
  LET a == TDiv(t * ob.speed, 1000)
      x == MulDiv(MathCos(a + ob.phase), ob.radius, 1000)
      z == MulDiv(MathSin(a + ob.phase), ob.radius, 1000)
      y == 100 + MulDiv(MathSin(a + TDiv(ob.phase * 3, 10)), 50, 1000)
  IN Vec(x, y, z)

\* A hazard whose orbit radius starts at 0 instead of 6.
newObstacleAnyRadius(u1, u2, u3, u4, u5) ==
  LET pos == randomPoint(TDiv(WORLD_RADIUS * 8, 10), u1, u2)
  IN [position |-> Vec(pos.x, 100, pos.z),
      phase    |-> TDiv(u3 * TwoPi, 1000),
      radius   |-> TDiv(u4 * 1000, 1000),
      speed    |-> 600 + TDiv(u5 * 800, 1000)]
\* One hazard made by spawnObstacles; u1..u5 are its five random draws.
newObstacle(u1, u2, u3, u4, u5) ==
  LET pos == randomPoint(TDiv(WORLD_RADIUS * 8, 10), u1, u2)
  IN [position |-> Vec(pos.x, 100, pos.z),
      phase    |-> TDiv(u3 * TwoPi, 1000),
      radius   |-> 600 + TDiv(u4 * 1000, 1000),
      speed    |-> 600 + TDiv(u5 * 800, 1000)]

\* An inputZ that counts every held key of a direction.
inputZPerKey(k) ==
  (IF "KeyS" \in k THEN 1 ELSE 0) + (IF "ArrowDown" \in k THEN 1 ELSE 0)
  - (IF "KeyW" \in k THEN 1 ELSE 0) - (IF "ArrowUp" \in k THEN 1 ELSE 0)
\* inputX / inputZ of updatePlayer.
inputZ(k) == (IF "KeyS" \in k \/ "ArrowDown" \in k THEN 1 ELSE 0)
           - (IF "KeyW" \in k \/ "ArrowUp" \in k THEN 1 ELSE 0)
inputX(k) == (IF "KeyD" \in k \/ "ArrowRight" \in k THEN 1 ELSE 0)
           - (IF "KeyA" \in k \/ "ArrowLeft" \in k THEN 1 ELSE 0)

\* camera.getWorldDirection(forward); forward.y = 0; forward.normalize().
forwardOf(dir) == setLength(Vec(dir.x, 0, dir.z), 1000)

\* crossVectors((0,1,0), forward).normalize().
rightOf(f) == setLength(Vec(f.z, Mul(0, Add(f.x, f.z)), Sub(0, f.x)), 1000)

\* updatePlayer, lines 164-166: the force of the held keys.
steer(forward, right, k) ==
  addScaledVector(addScaledVector(ZeroVec, forward, inputZ(k) * accel, 1000),
                  right, inputX(k) * accel, 1000)

\* updatePlayer, lines 173-174: clamp speed.
clampSpeed(v) == IF Gt(length(v), maxSpeed) THEN setLength(v, maxSpeed) ELSE v

\* updatePlayer, lines 182-189: keep inside world radius.
containAt(p, v, dist) ==
  IF Gt(dist, WORLD_RADIUS)
  THEN [position |-> Vec(MulDiv(p.x, WORLD_RADIUS, dist), p.y,
                         MulDiv(p.z, WORLD_RADIUS, dist)),
        velocity |-> multiplyScalar(v, 3, 10)]
  ELSE [position |-> p, velocity |-> v]

contain(p, v) == containAt(p, v, MathSqrt(Add(Mul(p.x, p.x), Mul(p.z, p.z))))

\* A move that adds the velocity to the height as well.
movePlayerFree(pos, v, d) ==
  Vec(Add(pos.x, MulDiv(v.x, d, 1000)), Add(pos.y, MulDiv(v.y, d, 1000)),
      Add(pos.z, MulDiv(v.z, d, 1000)))
\* updatePlayer, lines 177-180: move the player, keep it above ground.
movePlayer(pos, v, d) ==
  Vec(Add(pos.x, MulDiv(v.x, d, 1000)), playerRadius, Add(pos.z, MulDiv(v.z, d, 1000)))

moveAndContain(pos, v, d) ==
  CHOOSE r \in {contain(p, v) : p \in {movePlayer(pos, v, d)}} : TRUE

\* updatePlayer, lines 169-170: velocity += force * dt, then damping.
accelerate(vel, force, d) ==
  multiplyScalar(addScaledVector(vel, force, d, 1000), Pow08(d), 1000)

\* updatePlayer(dt): the new [position, velocity].  Each stage is computed
\* once, in the order of the code's statements.
updatePlayer(pos, vel, dir, k, d) ==
  CHOOSE r \in
    {moveAndContain(pos, v, d) :
       v \in {clampSpeed(w) :
         w \in {accelerate(vel, force, d) :
           force \in {steer(forward, right, k) :
             forward \in {forwardOf(dir)},
             right \in {rightOf(f) : f \in {forwardOf(dir)}}}}}} : TRUE

\* updateCamera(): the new [position, direction].
updateCamera(cam, pos) ==
  LET desired == Vec(pos.x, Add(pos.y, CAM_UP), Add(pos.z, CAM_BACK))
      c == lerp(cam, desired, 8, 100)
  IN [position  |-> c,
      direction |-> Vec(Sub(pos.x, c.x), Sub(Add(pos.y, LOOK_UP), c.y), Sub(pos.z, c.z))]

\* The ground point under the arena center.
Origin == Vec(0, 0, 0)
\* The arena center at the player's height.
Center == Vec(0, playerRadius, 0)

\* ------------------------------------------------------------ scheduling

\* A callback given to requestAnimationFrame: animate, or the tick closure of
\* one shakeCamera call (with the start and orig it closed over).
FrameCallback(id) == [fn |-> "animate", id |-> id, start |-> 0, orig |-> ZeroVec]
TickCallback(id, start, orig) == [fn |-> "tick", id |-> id, start |-> start, orig |-> orig]

\* A callback given to setTimeout, with the time it is due.
RespawnTimer(due) == [kind |-> "respawn", due |-> due, prev |-> ""]
FlashTimer(due, prev) == [kind |-> "flash", due |-> due, prev |-> prev]

\* cancelAnimationFrame(id): the queue without the callback of that id.
cancelAnimationFrame(q, id) == SelectSeq(q, LAMBDA e: e.id # id)

\* The jitter one shake tick adds, for random draws r (1/1000) and the
\* remaining fraction f (1/1000): (Math.random() - 0.5) * amount * f.
jitter(r, f) == MulDiv(TDiv((r - 500) * SHAKE_AMOUNT, 1000), f, 1000)

shaken(orig, r, f) ==
  Vec(Add(orig.x, jitter(r[1], f)), Add(orig.y, jitter(r[2], f)),
      Add(orig.z, jitter(r[3], f)))

\* A frame that goes from the pickup pass straight to the camera.
PcSkipHazards == "updateCamera"
\* The step that follows the pickup pass / the hazard pass.
PcAfterItems == IF Len(obstacles) = 0 THEN "updateCamera" ELSE "checkObstacleCollisions"

\* ------------------------------------------------------------ construction

\* The draws of Math.random() during init(), by seed.
Seeds == {1, 2, 3}
Draw(seed, n) == ((seed * n + n \div 3) % 7) * 166

\* The state after init() and ensureUI() have run.
Init ==
  /\ started = FALSE
  /\ score = 0
  /\ player = Center
  /\ velocity = ZeroVec
  /\ camera = Vec(0, 800, 1200)
  /\ baseline = Vec(0, 800, 1200)
  /\ camDir = Vec(0, 0, -1000)
  /\ \E seed \in Seeds :
       /\ items = [n \in 1..ITEM_COUNT |->
                     newItem(Draw(seed, 2 * n), Draw(seed, 2 * n + 1))]
       /\ obstacles = [n \in 1..OBSTACLE_COUNT |->
                     newObstacle(Draw(seed, 5 * n), Draw(seed, 5 * n + 1),
                                 Draw(seed, 5 * n + 2), Draw(seed, 5 * n + 3),
                                 Draw(seed, 5 * n + 4))]
  /\ keys = {}
  /\ lastTime = 0
  /\ messageEl = "Press Start"
  /\ shakeTimeout = 0
  /\ clock = 0
  /\ rafQueue = << >>
  /\ batch = << >>
  /\ rafSeq = 0
  /\ timers = << >>
  /\ pc = "idle"
  /\ now = Undefined
  /\ dt = 0
  /\ idx = 0
  /\ frames = 0
  /\ clicks = 0
  /\ hazardPass = [near |-> 0, score |-> 0, hits |-> 0]
  /\ itemPass = [items |-> << >>, score |-> 0, pending |-> 0]
  /\ shakeStart = 0
  /\ log = << >>

\* ------------------------------------------------------------ input

\* window keydown: keys[e.code] = true.
KeyDown(code) ==
  /\ pc = "idle"
  /\ code \notin keys
  /\ Cardinality(keys) < MaxHeld
  /\ keys' = keys \cup {code}
  /\ UNCHANGED << started, score, player, velocity, camera, camDir, items,
                  obstacles, lastTime, messageEl, shakeTimeout, clock,
                  rafQueue, rafSeq, timers, pc, now, dt, idx, frames, log,
                  batch, clicks, hazardPass, baseline, itemPass, shakeStart >>

\* window keyup: keys[e.code] = false.
KeyUp(code) ==
  /\ pc = "idle"
  /\ code \in keys
  /\ keys' = keys \ {code}
  /\ UNCHANGED << started, score, player, velocity, camera, camDir, items,
                  obstacles, lastTime, messageEl, shakeTimeout, clock,
                  rafQueue, rafSeq, timers, pc, now, dt, idx, frames, log,
                  batch, clicks, hazardPass, baseline, itemPass, shakeStart >>

\* ------------------------------------------------------------ startGame

\* A start guard that never holds.
neverStarted == FALSE
\* startGame, line 86: if (started) return.
alreadyStarted == started

\* The click handler of the start button, up to its call of animate().
StartGame ==
  /\ pc = "idle"
  /\ clicks < MaxClicks
  /\ clicks' = clicks + 1
  /\ IF alreadyStarted
     THEN UNCHANGED << started, score, player, velocity, camera, camDir, items,
                       obstacles, keys, lastTime, messageEl, shakeTimeout, clock,
                       rafQueue, batch, rafSeq, timers, pc, now, dt, idx, frames,
                       hazardPass, baseline, log, itemPass, shakeStart >>
     ELSE \E d \in Delays,
             u \in [1..(IF Len(items) < ITEM_COUNT THEN ITEM_COUNT - Len(items) ELSE 0)
                      -> RandPairs] :
            /\ clock' = clock + d
            /\ started' = TRUE
            /\ score' = 0
            /\ messageEl' = "Go! Collect cubes!"
            /\ player' = Center
            /\ velocity' = ZeroVec
            /\ items' = items \o [n \in DOMAIN u |-> newItem(u[n][1], u[n][2])]
            /\ lastTime' = clock'
            /\ now' = Undefined
            /\ pc' = "animate"
            /\ UNCHANGED << camera, camDir, obstacles, keys, shakeTimeout,
                            rafQueue, batch, rafSeq, timers, dt, idx, frames,
                            hazardPass, baseline, log, itemPass, shakeStart >>

\* ------------------------------------------------------------ animate

\* Whether the callback of this id is still queued.
Queued(id) == \E k \in DOMAIN rafQueue : rafQueue[k].id = id
Callback(id) == rafQueue[CHOOSE k \in DOMAIN rafQueue : rafQueue[k].id = id]

\* A browser frame begins: it will run the callbacks queued so far.
BeginFrame ==
  /\ pc = "idle"
  /\ frames < MaxFrames
  /\ rafQueue # << >>
  /\ \E d \in Delays : clock' = clock + d
  /\ batch' = [k \in DOMAIN rafQueue |-> rafQueue[k].id]
  /\ frames' = frames + 1
  /\ pc' = "raf"
  /\ UNCHANGED << started, score, player, velocity, camera, camDir, items,
                  obstacles, keys, lastTime, messageEl, shakeTimeout,
                  rafQueue, rafSeq, timers, now, dt, idx, log, clicks,
                  hazardPass, baseline, itemPass, shakeStart >>

\* The frame is done with its callbacks, or skips a cancelled one.
EndFrame ==
  /\ pc = "raf"
  /\ IF batch = << >>
     THEN /\ pc' = "idle"
          /\ UNCHANGED batch
     ELSE /\ ~Queued(Head(batch))
          /\ batch' = Tail(batch)
          /\ UNCHANGED pc
  /\ UNCHANGED << started, score, player, velocity, camera, camDir, items,
                  obstacles, keys, lastTime, messageEl, shakeTimeout, clock,
                  rafQueue, rafSeq, timers, now, dt, idx, frames, log, clicks,
                  hazardPass, baseline, itemPass, shakeStart >>

\* The frame calls animate(now) with its timestamp.
RunFrame ==
  /\ pc = "raf"
  /\ batch # << >>
  /\ Queued(Head(batch))
  /\ Callback(Head(batch)).fn = "animate"
  /\ rafQueue' = cancelAnimationFrame(rafQueue, Head(batch))
  /\ batch' = Tail(batch)
  /\ now' = clock
  /\ pc' = "animate"
  /\ UNCHANGED << started, score, player, velocity, camera, camDir, items,
                  obstacles, keys, lastTime, messageEl, shakeTimeout, clock,
                  rafSeq, timers, dt, idx, frames, log, clicks, hazardPass,
                  baseline, itemPass, shakeStart >>

\* animate, line 134: dt = Math.min(0.05, (now - lastTime) / 1000), in ms.
frameDelta(n, last) == MathMin(MAX_DT, Sub(n, last))

\* animate, lines 133-135: the guard, dt and lastTime.
Animate ==
  /\ pc = "animate"
  /\ IF ~started
     THEN /\ pc' = "raf"
          /\ UNCHANGED << dt, lastTime, log >>
     ELSE /\ dt' = frameDelta(now, lastTime)
          /\ lastTime' = now
          /\ log' = << >>
          /\ pc' = "updatePlayer"
  /\ UNCHANGED << started, score, player, velocity, camera, camDir, items,
                  obstacles, keys, messageEl, shakeTimeout, clock, rafQueue,
                  batch, rafSeq, timers, now, idx, frames, clicks, hazardPass,
                  baseline, itemPass, shakeStart >>

\* animate, line 137: updatePlayer(dt).
UpdatePlayer ==
  /\ pc = "updatePlayer"
  /\ \E r \in {updatePlayer(player, velocity, camDir, keys, dt)} :
       /\ player' = r.position
       /\ velocity' = r.velocity
  /\ pc' = "updateObstacles"
  /\ log' = Append(log, "updatePlayer")
  /\ UNCHANGED << started, score, camera, camDir, items, obstacles, keys,
                  lastTime, messageEl, shakeTimeout, clock, rafQueue, rafSeq,
                  timers, now, dt, idx, frames, batch, clicks, hazardPass,
                  baseline, itemPass, shakeStart >>

\* A hazard update that also advances the hazard's phase.
movedAndTurned(ob, t) ==
  [ob EXCEPT !.position = orbitPosition(ob, t),
             !.phase = (@ + TDiv(t * ob.speed, 1000)) % TwoPi]
\* updateObstacles, lines 203-210: the update writes the hazard's position
\* (and its rotation, which is not modelled) and leaves userData alone.
moved(ob, t) == [ob EXCEPT !.position = orbitPosition(ob, t)]

\* The number of respawn timers that are set.
PendingRespawns ==
  Cardinality({k \in DOMAIN timers : timers[k].kind = "respawn"})

\* animate, line 138: updateObstacles(dt); then the pickup loop is entered.
UpdateObstacles ==
  /\ pc = "updateObstacles"
  /\ obstacles' = [n \in DOMAIN obstacles |-> moved(obstacles[n], clock)]
  /\ itemPass' = [items |-> items, score |-> score, pending |-> PendingRespawns]
  /\ IF Len(items) = 0
     THEN /\ pc' = PcAfterItems
          /\ idx' = 1
          /\ log' = log \o << "updateObstacles", "checkItemCollisions" >>
     ELSE /\ pc' = "checkItemCollisions"
          /\ idx' = Len(items)
          /\ log' = Append(log, "updateObstacles")
  /\ UNCHANGED << started, score, player, velocity, camera, camDir, items,
                  keys, lastTime, messageEl, shakeTimeout, clock, rafQueue,
                  rafSeq, timers, now, dt, frames, batch, clicks, hazardPass,
                  baseline, shakeStart >>

\* The pickup test of checkItemCollisions.
itemHit(pos, it) ==
  LET r == playerRadius + ITEM_PAD
  IN Lt(distanceToSquared(pos, it), r * r)

\* The hazard test of checkObstacleCollisions.
obstacleHit(pos, ob) ==
  LET r == playerRadius + OBSTACLE_PAD
  IN Lt(distanceToSquared(pos, ob.position), r * r)

\* A penalty without the floor at 0.
scoreAfterHitUnfloored(s) == s - HAZARD_PENALTY
\* The score after a pickup / after a hazard hit.
scoreAfterItem(s) == s + ITEM_REWARD
scoreAfterHit(s) == MathMax(0, s - HAZARD_PENALTY)

\* A collection that sets no respawn timer.
timersAfterItemFlashOnly(ts, t, msg) ==
  Append(ts, FlashTimer(t + ITEM_FLASH_MS, msg))
\* A respawn timer that is due at once.
timersAfterItemAtOnce(ts, t, msg) ==
  ts \o << RespawnTimer(t), FlashTimer(t + ITEM_FLASH_MS, msg) >>
\* The timers a collection adds: the respawn, then flashMessage's restore.
timersAfterItem(ts, t, msg) ==
  ts \o << RespawnTimer(t + RESPAWN_DELAY), FlashTimer(t + ITEM_FLASH_MS, msg) >>

\* A pickup loop that ends at its first hit.
passEndsAtHit(i, hit) == i > 1 /\ ~hit
\* checkItemCollisions, line 215: the loop goes on while i >= 0 (here i > 1),
\* whether or not the pickup was hit.
passContinues(i, hit) == i > 1

\* animate, line 139: one iteration of checkItemCollisions' loop (i = idx),
\* counting down from the last pickup.
CheckItemCollisions ==
  /\ pc = "checkItemCollisions"
  /\ IF itemHit(player, items[idx])
     THEN /\ items' = splice(items, idx)
          /\ score' = scoreAfterItem(score)
          /\ timers' = timersAfterItem(timers, clock, messageEl)
          /\ messageEl' = "+10!"
     ELSE UNCHANGED << items, score, timers, messageEl >>
  /\ IF passContinues(idx, itemHit(player, items[idx]))
     THEN /\ idx' = idx - 1
          /\ UNCHANGED << pc, log >>
     ELSE /\ idx' = 1
          /\ pc' = PcAfterItems
          /\ log' = Append(log, "checkItemCollisions")
  /\ UNCHANGED << started, player, velocity, camera, camDir, obstacles, keys,
                  lastTime, shakeTimeout, clock, rafQueue, rafSeq, now, dt,
                  frames, batch, clicks, hazardPass, baseline, itemPass,
                  shakeStart >>

\* A hit that leaves the velocity as it is.
velocityAfterHitKept == velocity
\* checkObstacleCollisions, line 240: velocity.set(0,0,0).
velocityAfterHit == ZeroVec

\* A shake request that leaves the pending tick of the earlier shake queued.
queueAfterShakeUncancelled(q, old, id, start, orig) ==
  Append(q, TickCallback(id, start, orig))
\* shakeCamera, lines 268-281: the pending tick is cancelled, the first tick
\* runs at once and requests the next one.
queueAfterShake(q, old, id, start, orig) ==
  Append(cancelAnimationFrame(q, old), TickCallback(id, start, orig))

\* Whether a tick of a shake is pending.
Shaking == \E k \in DOMAIN rafQueue : rafQueue[k].fn = "tick"

\* animate, line 140: one iteration of checkObstacleCollisions' loop (ob =
\* obstacles[idx]); a hit runs flashMessage and shakeCamera(0.35, 350), whose
\* first tick() runs at once.
CheckObstacleCollisions ==
  /\ pc = "checkObstacleCollisions"
  /\ IF obstacleHit(player, obstacles[idx])
     THEN \E r \in RandTriples :
          /\ player' = Center
          /\ velocity' = velocityAfterHit
          /\ score' = scoreAfterHit(score)
          /\ timers' = Append(timers, FlashTimer(clock + HAZARD_FLASH_MS, messageEl))
          /\ messageEl' = "Ouch! -20"
          /\ camera' = shaken(camera, r, 1000)
          /\ rafSeq' = rafSeq + 1
          /\ shakeTimeout' = rafSeq'
          /\ rafQueue' = queueAfterShake(rafQueue, shakeTimeout, rafSeq', clock, camera)
          /\ baseline' = IF Shaking THEN baseline ELSE camera
          /\ shakeStart' = clock
     ELSE UNCHANGED << player, velocity, score, timers, messageEl, camera,
                       rafSeq, shakeTimeout, rafQueue, baseline, shakeStart >>
  /\ hazardPass' =
       LET hit == IF obstacleHit(player, obstacles[idx]) THEN 1 ELSE 0
       IN IF idx = 1
          THEN [near  |-> Cardinality({n \in DOMAIN obstacles :
                                         obstacleHit(player, obstacles[n])}),
                score |-> score,
                hits  |-> hit]
          ELSE [hazardPass EXCEPT !.hits = @ + hit]
  /\ IF idx < Len(obstacles)
     THEN /\ idx' = idx + 1
          /\ UNCHANGED << pc, log >>
     ELSE /\ idx' = 0
          /\ pc' = "updateCamera"
          /\ log' = Append(log, "checkObstacleCollisions")
  /\ UNCHANGED << started, camDir, items, obstacles, keys, lastTime, clock,
                  now, dt, frames, clicks, batch, itemPass >>

\* animate, line 141: updateCamera().
UpdateCamera ==
  /\ pc = "updateCamera"
  /\ \E c \in {updateCamera(camera, player)} :
       /\ camera' = c.position
       /\ camDir' = c.direction
  /\ pc' = "render"
  /\ log' = Append(log, "updateCamera")
  /\ UNCHANGED << started, score, player, velocity, items, obstacles, keys,
                  lastTime, messageEl, shakeTimeout, clock, rafQueue, rafSeq,
                  timers, now, dt, idx, frames, batch, clicks, hazardPass,
                  baseline, itemPass, shakeStart >>

\* A frame that requests no next frame.
queueAfterLastFrame(q, id) == q
\* animate, line 144: requestAnimationFrame(animate) queues the next frame.
queueAfterFrame(q, id) == Append(q, FrameCallback(id))

\* animate, lines 143-144: render, then requestAnimationFrame(animate).
RequestFrame ==
  /\ pc = "render"
  /\ rafSeq' = rafSeq + 1
  /\ rafQueue' = queueAfterFrame(rafQueue, rafSeq')
  /\ pc' = "raf"
  /\ log' = Append(log, "requestAnimationFrame")
  /\ UNCHANGED << started, score, player, velocity, camera, camDir, items,
                  obstacles, keys, lastTime, messageEl, shakeTimeout, clock,
                  timers, now, dt, idx, frames, batch, clicks, hazardPass,
                  baseline, itemPass, shakeStart >>

\* ------------------------------------------------------------ deferred callbacks

\* The frame runs the pending tick of a shake (shakeCamera's inner function).
ShakeTick ==
  /\ pc = "raf"
  /\ batch # << >>
  /\ Queued(Head(batch))
  /\ Callback(Head(batch)).fn = "tick"
  /\ batch' = Tail(batch)
  /\ LET e == Callback(Head(batch))
         rest == cancelAnimationFrame(rafQueue, Head(batch))
         elapsed == clock - e.start
     IN IF elapsed >= SHAKE_MS
        THEN /\ camera' = e.orig
             /\ rafQueue' = rest
             /\ UNCHANGED << rafSeq, shakeTimeout >>
        ELSE \E r \in RandTriples :
             /\ camera' = shaken(e.orig, r, 1000 - TDiv(elapsed * 1000, SHAKE_MS))
             /\ rafSeq' = rafSeq + 1
             /\ shakeTimeout' = rafSeq'
             /\ rafQueue' = Append(rest, TickCallback(rafSeq', e.start, e.orig))
  /\ UNCHANGED << started, score, player, velocity, camDir, items, obstacles,
                  keys, lastTime, messageEl, clock, timers, pc, now, dt, idx,
                  frames, log, clicks, hazardPass, baseline, itemPass,
                  shakeStart >>

\* Timers run in the order they fall due (ties: in the order they were set).
Due(k) ==
  \A m \in DOMAIN timers :
    timers[m].due > timers[k].due \/ (timers[m].due = timers[k].due /\ m >= k)

\* A setTimeout callback runs: spawnItems(1), or flashMessage's restore.
TimerFires ==
  /\ pc = "idle"
  /\ \E k \in DOMAIN timers :
       /\ Due(k)
       /\ clock' = IF clock > timers[k].due THEN clock ELSE timers[k].due
       /\ timers' = splice(timers, k)
       /\ IF timers[k].kind = "respawn"
          THEN /\ \E u \in RandPairs : items' = Append(items, newItem(u[1], u[2]))
               /\ UNCHANGED messageEl
          ELSE /\ messageEl' = timers[k].prev
               /\ UNCHANGED items
  /\ UNCHANGED << started, score, player, velocity, camera, camDir, obstacles,
                  keys, lastTime, shakeTimeout, rafQueue, rafSeq, pc, now, dt,
                  idx, frames, log, batch, clicks, hazardPass, baseline,
                  itemPass, shakeStart >>

\* ------------------------------------------------------------ specifications

\* The program from construction.  No timer and no shake tick is ever pending
\* in it (see DeltaTimeInRange), so Next lists the callbacks that can run.
Next ==
  \/ StartGame
  \/ \E code \in KeyCodes : KeyDown(code)
  \/ \E code \in KeyCodes : KeyUp(code)
  \/ BeginFrame
  \/ EndFrame
  \/ RunFrame
  \/ Animate
  \/ UpdatePlayer
  \/ UpdateObstacles
  \/ CheckItemCollisions
  \/ CheckObstacleCollisions
  \/ UpdateCamera
  \/ RequestFrame

Spec == Init /\ [][Next]_vars

\* ------------------------------------------------------------ a running session

(***************************************************************************)
(* SpecSession starts from a running session at the boundary between two   *)
(* frames, with a finite player position: the state the frame loop is      *)
(* written for.  Its frame, timer and tick callbacks are those of Spec.    *)
(***************************************************************************)

\* performance.now() when the session is picked up.
SessionT0 == 1000

\* Hazards by their random (phase, radius, speed) draws, where
\* updateObstacles put them at SessionT0.
sessionObstacle(u) ==
  LET ob == newObstacle(0, 0, u[1], u[2], u[3])
  IN [ob EXCEPT !.position = orbitPosition(ob, SessionT0)]

\* Two hazards with equal draws travel together.
SessionObstacleDraws ==
  { << <<0, 0, 0>>, <<0, 0, 0>>, <<500, 400, 999>>, <<250, 999, 500>> >>,
    << <<500, 400, 999>>, <<0, 0, 0>>, <<250, 999, 500>>, <<250, 999, 500>> >> }

\* Where the hazard of draws (0, 0, 0) is one short frame later.
HazardSpot ==
  LET p == orbitPosition(sessionObstacle(<<0, 0, 0>>), SessionT0 + 40)
  IN Vec(p.x, playerRadius, p.z)

\* Player position and velocity at the frame boundary.
SessionPlayers ==
  { [position |-> Center, velocity |-> ZeroVec, keys |-> {}],
    [position |-> HazardSpot, velocity |-> ZeroVec, keys |-> {"KeyW"}],
    [position |-> HazardSpot, velocity |-> Vec(0, 0, -400), keys |-> {}],
    [position |-> Vec(3970, playerRadius, 0), velocity |-> Vec(maxSpeed, 0, 0),
     keys |-> {"KeyD", "ArrowRight"}] }

SessionScores == {10, 50}
SessionSeeds == {1, 2}

InitSession ==
  /\ started = TRUE
  /\ score \in SessionScores
  /\ \E p \in SessionPlayers :
       /\ player = p.position
       /\ velocity = p.velocity
       /\ camera = Vec(p.position.x, p.position.y + CAM_UP, p.position.z + CAM_BACK)
       /\ baseline = camera
       /\ camDir = Vec(0, LOOK_UP - CAM_UP, -CAM_BACK)
       /\ keys = p.keys
  /\ \E seed \in SessionSeeds :
       items = [n \in 1..ITEM_COUNT |->
                  newItem(Draw(seed, 2 * n), Draw(seed, 2 * n + 1))]
  /\ \E u \in SessionObstacleDraws :
       obstacles = [n \in 1..OBSTACLE_COUNT |-> sessionObstacle(u[n])]
  /\ lastTime = SessionT0
  /\ messageEl = "Go! Collect cubes!"
  /\ shakeTimeout = 0
  /\ clock = SessionT0
  /\ rafQueue = << FrameCallback(1) >>
  /\ batch = << >>
  /\ rafSeq = 1
  /\ timers = << >>
  /\ pc = "idle"
  /\ now = SessionT0
  /\ dt = 0
  /\ idx = 0
  /\ frames = 0
  /\ clicks = 0
  /\ hazardPass = [near |-> 0, score |-> 0, hits |-> 0]
  /\ itemPass = [items |-> << >>, score |-> 0, pending |-> 0]
  /\ shakeStart = 0
  /\ log = << >>

\* The keys held do not change while the session is followed.
NextSession ==
  \/ StartGame
  \/ BeginFrame
  \/ EndFrame
  \/ RunFrame
  \/ Animate
  \/ UpdatePlayer
  \/ UpdateObstacles
  \/ CheckItemCollisions
  \/ CheckObstacleCollisions
  \/ UpdateCamera
  \/ RequestFrame
  \/ ShakeTick
  \/ TimerFires

SpecSession == InitSession /\ [][NextSession]_vars

\* A handler that has begun runs to its end, and the browser runs the
\* callbacks of a frame it has begun and every timer that is set.
FrameSteps ==
  \/ EndFrame
  \/ RunFrame
  \/ Animate
  \/ UpdatePlayer
  \/ UpdateObstacles
  \/ CheckItemCollisions
  \/ CheckObstacleCollisions
  \/ UpdateCamera
  \/ RequestFrame
  \/ ShakeTick

\* The sessions followed to their end: the player at rest, on the pickups of
\* the centre or under a hazard.
InitFair ==
  InitSession /\ score = 10 /\ velocity = ZeroVec /\ obstacles[1] = obstacles[2]

FairSession ==
  InitFair /\ [][NextSession]_vars /\ WF_vars(FrameSteps) /\ WF_vars(TimerFires)

\* ------------------------------------------------------------ a session in a shake

(***************************************************************************)
(* SpecShake starts at the frame boundary after shakeCamera(0.35, 350) ran  *)
(* at SessionT0: its first tick has jittered the camera and the next tick   *)
(* is queued ahead of the frame callback.  With the player at Center this   *)
(* is the state a hazard hit leaves; with the player at HazardSpot the next *)
(* frame calls shakeCamera again while the shake is active.                 *)
(***************************************************************************)
InitShake ==
  /\ started = TRUE
  /\ score \in SessionScores
  /\ \E p \in SessionPlayers, r \in RandTriples :
       /\ player = p.position
       /\ velocity = p.velocity
       /\ baseline = Vec(p.position.x, p.position.y + CAM_UP, p.position.z + CAM_BACK)
       /\ camera = shaken(baseline, r, 1000)
       /\ camDir = Vec(0, LOOK_UP - CAM_UP, -CAM_BACK)
       /\ keys = p.keys
  /\ \E seed \in SessionSeeds :
       items = [n \in 1..ITEM_COUNT |->
                  newItem(Draw(seed, 2 * n), Draw(seed, 2 * n + 1))]
  /\ \E u \in SessionObstacleDraws :
       obstacles = [n \in 1..OBSTACLE_COUNT |-> sessionObstacle(u[n])]
  /\ lastTime = SessionT0
  /\ messageEl = "Ouch! -20"
  /\ shakeTimeout = 1
  /\ clock = SessionT0
  /\ rafQueue = << TickCallback(1, SessionT0, baseline), FrameCallback(2) >>
  /\ batch = << >>
  /\ rafSeq = 2
  /\ timers = << FlashTimer(SessionT0 + HAZARD_FLASH_MS, "Go! Collect cubes!") >>
  /\ pc = "idle"
  /\ now = SessionT0
  /\ dt = 0
  /\ idx = 0
  /\ frames = 0
  /\ clicks = 0
  /\ hazardPass = [near |-> 0, score |-> 0, hits |-> 0]
  /\ itemPass = [items |-> << >>, score |-> 0, pending |-> 0]
  /\ shakeStart = SessionT0
  /\ log = << >>

SpecShake == InitShake /\ [][NextSession]_vars

\* ------------------------------------------------------------ properties

\* The claim's own reading of a collision test: the squared distance between
\* the player and a point is below (playerRadius + pad)^2.
Within(pos, point, pad) ==
  IsNum(distanceToSquared(pos, point))
  /\ distanceToSquared(pos, point) < (playerRadius + pad) * (playerRadius + pad)

\* C1: in every reachable state the score is an integer that is not below 0.
ScoreNonNegative == IsNum(score) /\ score \in Nat

\* C1 witness: a hazard hit has floored the score at 0.
ScoreFlooredWitness == score = 0 /\ messageEl = "Ouch! -20" /\ hazardPass.score = 10

\* C2: an iteration of the hazard pass whose test succeeds puts the player at
\* (0, playerRadius, 0), zeroes the velocity, makes the score max(0, score - 20)
\* and requests a shake (its tick is queued under shakeTimeout, closing over
\* the current time and camera position); pickups and hazards are untouched.
HazardHitEffect ==
  [][ (pc = "checkObstacleCollisions"
       /\ Within(player, obstacles[idx].position, OBSTACLE_PAD))
      => /\ player' = Vec(0, playerRadius, 0)
         /\ velocity' = Vec(0, 0, 0)
         /\ score' = (IF score >= 20 THEN score - 20 ELSE 0)
         /\ \E k \in DOMAIN rafQueue' :
              rafQueue'[k] = TickCallback(shakeTimeout', clock, camera)
         /\ shakeTimeout' # shakeTimeout
         /\ items' = items
         /\ obstacles' = obstacles ]_vars

\* C2 witness: a moving player has just been hit (score 50 -> 30).
HazardHitWitness ==
  /\ pc \in {"checkObstacleCollisions", "updateCamera"}
  /\ hazardPass.hits = 1
  /\ hazardPass.score = 50
  /\ score = 30
  /\ player = Vec(0, playerRadius, 0)
  /\ messageEl = "Ouch! -20"

PickupEffect ==
  [][ (pc = "checkItemCollisions" /\ Within(player, items[idx], ITEM_PAD))
      => /\ score' = score + 10
         /\ items' = SubSeq(items, 1, idx - 1) \o SubSeq(items, idx + 1, Len(items)) ]_vars

\* C4 witness: a pickup that is neither first nor last has been collected.
PickupWitness ==
  /\ pc = "checkItemCollisions"
  /\ messageEl = "+10!"
  /\ Len(items) = ITEM_COUNT - 1
  /\ 1 < idx /\ idx < Len(items)

\* C5: a collection removes a pickup and sets exactly one respawn timer, due
\* 800 ms later; the pickup set grows only by one, only when a respawn timer
\* runs outside a frame and not before it is due; a respawn timer that runs
\* adds exactly one pickup; and whenever respawn timers are set, all of them
\* have run at some later time.
RespawnDeferred ==
  /\ [][ /\ Len(items') <= Len(items) + 1
         /\ (Len(items') > Len(items))
            => /\ pc = "idle"
               /\ PendingRespawns' = PendingRespawns - 1
               /\ \E k \in DOMAIN timers :
                    timers[k].kind = "respawn" /\ clock' >= timers[k].due
         /\ (pc = "checkItemCollisions" /\ Within(player, items[idx], ITEM_PAD))
            => /\ Len(items') = Len(items) - 1
               /\ PendingRespawns' = PendingRespawns + 1
               /\ \E k \in DOMAIN timers' :
                    /\ k \notin DOMAIN timers
                    /\ timers'[k].kind = "respawn"
                    /\ timers'[k].due = clock + 800
         /\ (PendingRespawns' < PendingRespawns)
            => Len(items') = Len(items) + 1 ]_vars
  /\ (PendingRespawns > 0) ~> (PendingRespawns = 0)

\* C5 witness: one pickup was collected and its replacement has appeared.
RespawnWitness ==
  /\ score = 20
  /\ frames = 1
  /\ hazardPass.hits = 0
  /\ Len(items) = ITEM_COUNT
  /\ PendingRespawns = 0
  /\ clock >= SessionT0 + 40 + RESPAWN_DELAY

\* The frame callbacks that are pending.
PendingFrames == {k \in DOMAIN rafQueue : rafQueue[k].fn = "animate"}

\* C6: a start command in a running session changes neither the score, the
\* player, the velocity, the pickups nor the time baseline, and begins no
\* frame; at most one frame callback is ever pending.
StartTwiceNoOp ==
  /\ [][ (clicks' # clicks /\ started)
         => UNCHANGED << started, score, player, velocity, items, lastTime,
                         rafQueue, pc, obstacles, messageEl >> ]_vars
  /\ [](Cardinality(PendingFrames) <= 1)
  /\ [](pc \notin {"idle", "raf"} => PendingFrames = {})

\* C6 witness: start was commanded twice in a running session.
StartTwiceWitness == started /\ clicks = 2 /\ score = 50 /\ frames = 1

\* C7 as claimed: the delta-time handed to updatePlayer is a number between
\* 0 and 0.05 s, in the frame startGame runs as in every later one.
DeltaTimeInRange ==
  (pc = "updatePlayer") => (IsNum(dt) /\ 0 <= dt /\ dt <= MAX_DT)

StartEstablishes ==
  (clicks >= 1 /\ frames = 0 /\ pc \in {"animate", "updatePlayer"})
  => /\ started
     /\ score = 0
     /\ player = Vec(0, playerRadius, 0)
     /\ velocity = Vec(0, 0, 0)
     /\ Len(items) >= ITEM_COUNT

\* C9 witness: the first frame is about to run its motion update.
StartWitness == started /\ clicks = 1 /\ frames = 0 /\ pc = "updatePlayer"

\* The steps of a frame, in animate's order.
FrameOrder ==
  << "updatePlayer", "updateObstacles", "checkItemCollisions",
     "checkObstacleCollisions", "updateCamera", "requestAnimationFrame" >>

\* The number of steps a frame has completed at each position in animate.
StepsDone ==
  [p \in {"updatePlayer", "updateObstacles", "checkItemCollisions",
          "checkObstacleCollisions", "updateCamera", "render"} |->
     CASE p = "updatePlayer" -> 0
       [] p = "updateObstacles" -> 1
       [] p = "checkItemCollisions" -> 2
       [] p = "checkObstacleCollisions" -> 3
       [] p = "updateCamera" -> 4
       [] p = "render" -> 5]

\* C10: the steps completed in a frame are always an initial part of
\* FrameOrder, each once, and a finished frame has run them all; during the
\* collision passes every hazard is where this frame's updateObstacles put it
\* and updatePlayer has run; and the camera looks at the player as the
\* collision passes left it.
FrameStepOrder ==
  /\ pc \in DOMAIN StepsDone => log = SubSeq(FrameOrder, 1, StepsDone[pc])
  /\ pc \notin DOMAIN StepsDone => log \in {<< >>, FrameOrder}
  /\ pc \in {"checkItemCollisions", "checkObstacleCollisions"}
     => \A n \in DOMAIN obstacles :
          obstacles[n].position = orbitPosition(obstacles[n], clock)
  /\ pc = "render"
     => camDir = Vec(player.x - camera.x, player.y + LOOK_UP - camera.y,
                     player.z - camera.z)

\* C10 witness: a frame in which a hazard hit moved the player has finished.
FrameStepWitness ==
  /\ pc = "raf"
  /\ log = FrameOrder
  /\ hazardPass.hits = 1
  /\ player = Vec(0, playerRadius, 0)
  /\ frames = 1

\* C11: when the pickup pass of a frame has ended, the pickups left are those
\* of the set the pass began with that are out of the player's reach, in
\* their order; with k the number that were in reach, the score has risen by
\* 10 * k and k respawn timers have been set.
AllPickupsEvaluated ==
  (pc = "checkObstacleCollisions" /\ idx = 1)
  => LET k == Cardinality({n \in DOMAIN itemPass.items :
                             Within(player, itemPass.items[n], ITEM_PAD)})
     IN /\ items = SelectSeq(itemPass.items,
                             LAMBDA it : ~Within(player, it, ITEM_PAD))
        /\ score = itemPass.score + 10 * k
        /\ PendingRespawns = itemPass.pending + k

\* C11 witness: a pass that began with two pickups in reach has ended.
AllPickupsWitness ==
  /\ pc = "checkObstacleCollisions"
  /\ idx = 1
  /\ Len(itemPass.items) = ITEM_COUNT
  /\ Len(items) = ITEM_COUNT - 2

\* C12: a running session stays running; the last step of every frame adds
\* exactly one frame callback and no other step of animate adds or removes
\* one, so that between the callbacks of a running session exactly one frame
\* is pending; while the session is not started no frame has run or is
\* pending, and score, player, velocity and pickups do not change.
RunningForever ==
  /\ [][started => started']_vars
  /\ [][ (pc = "render")
         => Cardinality(PendingFrames') = Cardinality(PendingFrames) + 1 ]_vars
  /\ [][ (pc \in {"animate", "updatePlayer", "updateObstacles",
                  "checkItemCollisions", "checkObstacleCollisions",
                  "updateCamera"})
         => Cardinality(PendingFrames') = Cardinality(PendingFrames) ]_vars
  /\ [](started /\ pc \in {"idle", "raf"} => Cardinality(PendingFrames) = 1)
  /\ [](~started => pc = "idle" /\ rafQueue = << >> /\ frames = 0)
  /\ [][ (~started /\ ~started')
         => UNCHANGED << score, player, velocity, items >> ]_vars

\* C12 witness: two frames have run after the one startGame ran, and the
\* next is pending.
RunningWitness ==
  /\ started
  /\ frames = 2
  /\ pc = "idle"
  /\ Cardinality(PendingFrames) = 1

\* C13: in every state the player's height is playerRadius, whatever the
\* delta-time (NaN included) and the keys held.
HeightPinned == player.y = playerRadius

\* C13 witness: a motion update with a NaN delta-time has made the player's
\* x and z NaN and left the height at playerRadius.
HeightPinnedWitness ==
  /\ pc = "updateObstacles"
  /\ ~IsNum(dt)
  /\ ~IsNum(player.x)
  /\ ~IsNum(velocity.y)
  /\ player.y = playerRadius

\* C14 as claimed: after every motion update the player's horizontal
\* distance from the arena centre is a number that is at most WORLD_RADIUS.
ContainedAfterMove ==
  (pc = "updateObstacles")
  => /\ IsNum(player.x)
     /\ IsNum(player.z)
     /\ player.x * player.x + player.z * player.z <= WORLD_RADIUS * WORLD_RADIUS

\* C15: there are always exactly 4 hazards, and no step changes the phase,
\* the orbit radius or the angular speed of any of them.
HazardsFixed ==
  /\ [](Len(obstacles) = 4)
  /\ [][ /\ Len(obstacles') = Len(obstacles)
         /\ \A n \in DOMAIN obstacles :
              /\ obstacles'[n].phase = obstacles[n].phase
              /\ obstacles'[n].radius = obstacles[n].radius
              /\ obstacles'[n].speed = obstacles[n].speed ]_vars

\* C15 witness: two frames with a hazard hit, a start command and the
\* timers of that session have all run.
HazardsFixedWitness ==
  /\ frames = 2
  /\ clicks >= 1
  /\ shakeStart > SessionT0
  /\ pc = "idle"
  /\ timers = << >>
  /\ Len(obstacles) = 4

\* The shake ticks that are scheduled.
PendingTicks == {k \in DOMAIN rafQueue : rafQueue[k].fn = "tick"}

\* C16: at most one shake tick is scheduled, and a scheduled tick is the one
\* shakeTimeout names and belongs to the latest shake requested; so the tick
\* a frame runs, and the camera position it writes, are the latest shake's.
OneShakeTick ==
  /\ Cardinality(PendingTicks) <= 1
  /\ \A k \in PendingTicks :
       rafQueue[k].id = shakeTimeout /\ rafQueue[k].start = shakeStart
  /\ (pc = "raf" /\ batch # << >> /\ Queued(Head(batch))
      /\ Callback(Head(batch)).fn = "tick")
     => Callback(Head(batch)).start = shakeStart

\* C16 witness: a shake was requested while the first one was active, and a
\* later frame has run the new shake's tick.
OneShakeTickWitness ==
  /\ shakeStart = SessionT0 + 40
  /\ clock = SessionT0 + 80
  /\ pc = "raf"
  /\ \E k \in PendingTicks : rafQueue[k].start = shakeStart
  /\ camera # baseline

\* Whether one of two key codes bound to the same direction is held.
Held(a, b) == a \in keys \/ b \in keys

\* C17: for the keys held, inputX and inputZ are each -1, 0 or +1: a
\* direction held by one or both of its keys counts once, and opposite
\* directions held together give 0.
InputsUnit ==
  /\ inputX(keys) \in {-1, 0, 1}
  /\ inputZ(keys) \in {-1, 0, 1}
  /\ inputZ(keys) = (IF Held("KeyW", "ArrowUp") = Held("KeyS", "ArrowDown") THEN 0
                     ELSE IF Held("KeyW", "ArrowUp") THEN -1 ELSE 1)
  /\ inputX(keys) = (IF Held("KeyA", "ArrowLeft") = Held("KeyD", "ArrowRight") THEN 0
                     ELSE IF Held("KeyA", "ArrowLeft") THEN -1 ELSE 1)

\* C17 witness: a motion update has run with both keys of one direction held.
InputsUnitWitness ==
  /\ keys = {"KeyW", "ArrowUp"}
  /\ pc = "updateObstacles"
  /\ inputZ(keys) = -1

\* The point of the orbit of given phase, radius and speed at time t.
OrbitAt(phase, radius, speed, t) ==
  Vec(MulDiv(MathCos(TDiv(t * speed, 1000) + phase), radius, 1000),
      100 + MulDiv(MathSin(TDiv(t * speed, 1000) + TDiv(phase * 3, 10)), 50, 1000),
      MulDiv(MathSin(TDiv(t * speed, 1000) + phase), radius, 1000))

\* C18: from a frame's hazard update to its end, every hazard is at the
\* point that the time of the update and the hazard's phase, radius and
\* speed determine, whatever its position was before and whatever the
\* delta-time, the player and the score are.
HazardPositionByTime ==
  (pc \in {"checkItemCollisions", "checkObstacleCollisions", "updateCamera",
           "render"})
  => \A n \in DOMAIN obstacles :
       obstacles[n].position =
         OrbitAt(obstacles[n].phase, obstacles[n].radius, obstacles[n].speed, clock)

\* C18 witness: a hazard update has run in a frame whose delta-time is a
\* number while the player's position is not.
HazardPositionWitness ==
  /\ pc = "checkItemCollisions"
  /\ frames = 2
  /\ IsNum(dt)
  /\ ~IsNum(player.x)

\* C19: the number of active pickups plus the number of respawn timers that
\* are set is always ITEM_COUNT, so there are never more than ITEM_COUNT
\* pickups.
PickupsConserved ==
  /\ Len(items) + PendingRespawns = ITEM_COUNT
  /\ Len(items) <= ITEM_COUNT

\* C19 witness: two pickups are gone and their two respawns are pending.
PickupsConservedWitness ==
  /\ Len(items) = ITEM_COUNT - 2
  /\ PendingRespawns = 2
  /\ pc = "idle"

\* C20 as claimed: whenever no flash timer is pending, the message shows the
\* text it showed before the first flash of the session.
FlashesTransient ==
  (\A k \in DOMAIN timers : timers[k].kind # "flash")
  => messageEl = "Go! Collect cubes!"

====
